---- MODULE Spec2Model ----
(***************************************************************************)
(* Boss-timer bot (src/main.py): name resolution, kill/reset scheduling,   *)
(* the periodic scan with its TTL de-duplication and miss auto-advance.    *)
(*                                                                         *)
(* Time is the integer UTC timestamp (dt_to_ts); texts are tuples of       *)
(* one-character strings; a Python dict is a function over its key set.    *)
(***************************************************************************)
EXTENDS Integers, Sequences, FiniteSets, TLC

(************************** program constants ******************************)
CHECK_SEC == 10
MERGE_WINDOW_SEC == 10
NOTIFY_DEDUP_TTL_SEC == 120
\* JST = timezone(timedelta(hours=9))
JST_OFFSET_SEC == 32400
\* timedelta(days=1)
DAY_SEC == 86400
\* center - timedelta(minutes=1)
PRE_LEAD_SEC == 60
\* (n - center).total_seconds() >= 60
MISS_SEC == 60
\* BossState defaults and the fallback tuple (60, 100, 0)
DEFAULT_RESPAWN_MIN == 60
DEFAULT_RATE == 100
DEFAULT_FIRST_DELAY_MIN == 0
\* Optional[...] = None
None == -1
\* the "no name" result of _resolve_boss_name (None; an empty text is falsy too)
NoName == <<>>

Truthy(v) == v # None /\ v # 0

(******************************** bounds ***********************************)
\* messages handled in one behaviour
MaxMsgs == 2
\* clock steps in one behaviour
MaxSteps == 14

(***************************** text helpers ********************************)
Digits == {"0", "1", "2", "3", "4", "5", "6", "7", "8", "9"}

DigitVal(ch) ==
  CASE ch = "0" -> 0 [] ch = "1" -> 1 [] ch = "2" -> 2 [] ch = "3" -> 3
    [] ch = "4" -> 4 [] ch = "5" -> 5 [] ch = "6" -> 6 [] ch = "7" -> 7
    [] ch = "8" -> 8 [] ch = "9" -> 9

\* str.lower() on the characters of the model's alphabet
LowerChar(ch) ==
  CASE ch = "B" -> "b" [] ch = "X" -> "x" [] ch = "H" -> "h" [] OTHER -> ch

\* str.isalnum() on the characters of the model's alphabet
IsAlnum(ch) == ch \notin {"-", ".", "!", "+"}

Lower(s) == [i \in 1..Len(s) |-> LowerChar(s[i])]

\* normalize_for_match: NFKC (the identity on this alphabet), lower, keep alnum
normalize_for_match(s) == SelectSeq(Lower(s), IsAlnum)

\* str.isdigit(): non-empty and digits only
IsDigitStr(s) == Len(s) > 0 /\ \A i \in 1..Len(s) : s[i] \in Digits

RECURSIVE IntOf(_)
\* int(s) of a digit string
IntOf(s) == IF Len(s) = 0 THEN 0
            ELSE 10 * IntOf(SubSeq(s, 1, Len(s) - 1)) + DigitVal(s[Len(s)])

RECURSIVE zfill(_, _)
\* str.zfill(width)
zfill(s, w) == IF Len(s) >= w THEN s ELSE zfill(<<"0">> \o s, w)

\* zfill_hhmm: (int(p[:2]), int(p[2:])) of p = s.zfill(4)
zfill_hhmm(s) ==
  LET p == zfill(s, 4)
  IN  [h |-> IntOf(SubSeq(p, 1, 2)), m |-> IntOf(SubSeq(p, 3, Len(p)))]

StartsWith(n, key) == Len(key) <= Len(n) /\ SubSeq(n, 1, Len(key)) = key

\* key in n (substring)
Contains(n, key) ==
  \E i \in 1..(Len(n) - Len(key) + 1) : SubSeq(n, i, i + Len(key) - 1) = key

EndsWith(s, ch) == Len(s) > 0 /\ s[Len(s)] = ch

RECURSIVE rstrip_h(_)
\* str.rstrip("hH")
rstrip_h(s) == IF Len(s) > 0 /\ s[Len(s)] \in {"h", "H"}
               THEN rstrip_h(SubSeq(s, 1, Len(s) - 1)) ELSE s

RECURSIVE Pow10(_)
Pow10(k) == IF k = 0 THEN 1 ELSE 10 * Pow10(k - 1)

\* round() of the non-negative fraction num/den: half to even
RoundHalfEven(num, den) ==
  LET q == num \div den
      r == num % den
  IN  IF 2 * r < den THEN q
      ELSE IF 2 * r > den THEN q + 1
      ELSE IF q % 2 = 0 THEN q ELSE q + 1

\* float(s) accepts: an optional sign, digits with at most one point, one digit
\* at least (the decimal texts of the model's alphabet)
FloatOK(s) ==
  LET body == IF Len(s) > 0 /\ s[1] \in {"+", "-"} THEN Tail(s) ELSE s
  IN  /\ Len(body) > 0
      /\ \A i \in 1..Len(body) : body[i] \in Digits \cup {"."}
      /\ Cardinality({i \in 1..Len(body) : body[i] = "."}) <= 1
      /\ \E i \in 1..Len(body) : body[i] \in Digits

\* int(round(float(s) * 60)) for a text FloatOK accepts
HoursToMin(s) ==
  LET neg  == Len(s) > 0 /\ s[1] = "-"
      body == IF Len(s) > 0 /\ s[1] \in {"+", "-"} THEN Tail(s) ELSE s
      dots == {i \in 1..Len(body) : body[i] = "."}
      frac == IF dots = {} THEN 0 ELSE Len(body) - (CHOOSE i \in dots : TRUE)
      mant == IntOf(SelectSeq(body, LAMBDA ch : ch \in Digits))
      mag  == RoundHalfEven(mant * 60, Pow10(frac))
  IN  IF neg THEN 0 - mag ELSE mag

(***************************** dict helpers ********************************)
Put(f, k, v) == [x \in DOMAIN f \cup {k} |-> IF x = k THEN v ELSE f[x]]
Drop(f, k) == [x \in DOMAIN f \ {k} |-> f[x]]
EmptyDict == <<>>

(******************************** state ************************************)
VARIABLES
  now,       \* the clock: now_utc() as a timestamp, jst_now() through JST_OFFSET_SEC
  presets,   \* self.presets, in the preset file's order
  data,      \* self.data: guild -> {bosses, channels, aliases}
  sent,      \* self._sent_keys: guild -> (event key -> expiry)
  lastTick,  \* when tick last ran (history)
  emitted,   \* history: (kind, guild, boss, occurrence) -> notifications emitted
  track,     \* history: (guild, boss) -> the occurrence a kill or reset set, and
             \*          whether the current one was set before its pre-warn window
  ev,        \* history: the step just taken, its input and its outcome
  nmsg,      \* messages handled so far
  nstep,     \* clock steps taken so far
  scan,      \* the tick in progress: its n, the guilds it has still to scan, and
             \*   (history) the store as it was when the tick began
  missed,    \* history: (guild, boss, occurrence) miss-advanced since the boss's
             \*   last kill or reset
  disk       \* the store file: what Store.save wrote last

vars == <<now, presets, data, sent, lastTick, emitted, track, ev, nmsg, nstep,
          scan, missed, disk>>

(******************************* the model's world *************************)
Guilds == {1, 2}
\* (guild, channel) pairs a message can arrive in

NameXbc == <<"X", "b", "c">>
NameBca == <<"B", "c", "a">>
NameBd  == <<"B", "d">>

Row(n, rm, rate, fd) ==
  [name |-> n, respawn_min |-> rm, rate |-> rate, first_delay_min |-> fd]

\* a bosses_preset.json as _load_presets leaves it in self.presets
Catalog == << Row(NameXbc, 1, 100, 0), Row(NameBca, 2, 50, 0), Row(NameBd, 3, 100, 2) >>

\* JST 09:00:00 of the third day of the epoch
StartTime == 2 * DAY_SEC
\* the clock moves in half check periods
ClockStep == CHECK_SEC \div 2

(******************************* presets ***********************************)
PresetNames(ps) == {ps[i].name : i \in 1..Len(ps)}

\* self.presets.get(name, (60, 100, 0)) and self.presets.get(name, own)
PresetGet(ps, name, dflt) ==
  IF name \in PresetNames(ps)
  THEN LET i == CHOOSE j \in 1..Len(ps) : ps[j].name = name
       IN  [respawn_min |-> ps[i].respawn_min, rate |-> ps[i].rate,
            first_delay_min |-> ps[i].first_delay_min]
  ELSE dflt

DefaultTuple == [respawn_min |-> DEFAULT_RESPAWN_MIN, rate |-> DEFAULT_RATE,
                 first_delay_min |-> DEFAULT_FIRST_DELAY_MIN]

\* self.preset_alias: alias[normalize_for_match(name)] = name, a later row
\* overwriting an earlier one (no catalog of the model holds the one boss that
\* gets the two extra aliases)
preset_alias(ps) ==
  LET keys == {normalize_for_match(ps[i].name) : i \in 1..Len(ps)}
      last(k) == CHOOSE i \in 1..Len(ps) :
                   /\ normalize_for_match(ps[i].name) = k
                   /\ \A j \in (i + 1)..Len(ps) : normalize_for_match(ps[j].name) # k
  IN  [k \in keys |-> ps[last(k)].name]

(***************************** guild data **********************************)
NewGuild == [bosses |-> EmptyDict, channels |-> {}, aliases |-> EmptyDict]

\* _ensure_guild: a guild seen for the first time gets an entry (and is saved)
ensure_guild(d, g) == IF g \in DOMAIN d THEN d ELSE Put(d, g, NewGuild)

\* _get_boss(...) is not None
has_boss(d, g, name) == g \in DOMAIN d /\ name \in DOMAIN d[g].bosses

\* the record written into every guild of the store
set_boss_everywhere(d, g, st) ==
  LET e == ensure_guild(d, g)
  IN  [h \in DOMAIN e |-> [e[h] EXCEPT !.bosses = Put(@, st.name, st)]]

\* _set_boss
set_boss(d, g, st) ==
  LET e == ensure_guild(d, g)
  IN  [e EXCEPT ![g].bosses = Put(@, st.name, st)]

\* BossState(name=..., respawn_min=..., rate=..., first_delay_min=...) from the
\* presets, the record a first kill input or rh creates
NewBoss(ps, name) ==
  LET t == PresetGet(ps, name, DefaultTuple)
  IN  [name |-> name, respawn_min |-> t.respawn_min, rate |-> t.rate,
       first_delay_min |-> t.first_delay_min, next_spawn_utc |-> None,
       channel_id |-> None, skip |-> 0]

\* self._get_boss(guild, name) or BossState(...)
get_boss_or_new(ps, d, g, name) ==
  IF has_boss(d, g, name) THEN d[g].bosses[name] ELSE NewBoss(ps, name)

\* self._aliases(guild) once the guild has its entry
aliases_of(d, g) == ensure_guild(d, g)[g].aliases

\* self._channels(guild) once the guild has its entry
channels_of(d, g) == ensure_guild(d, g)[g].channels

(*************************** name resolution *******************************)
\* _resolve_boss_name: raw official name, user alias, preset alias, then the
\* first preset in catalog order whose normalized name starts with or contains
\* the key
resolve_boss_name(ps, user_alias, user_text) ==
  LET key  == normalize_for_match(user_text)
      hits == {i \in 1..Len(ps) :
                 LET n == normalize_for_match(ps[i].name)
                 IN  StartsWith(n, key) \/ Contains(n, key)}
  IN  IF user_text \in PresetNames(ps) THEN user_text
      ELSE IF key \in DOMAIN user_alias THEN user_alias[key]
      ELSE IF key \in DOMAIN preset_alias(ps) THEN preset_alias(ps)[key]
      ELSE IF hits # {} THEN ps[CHOOSE i \in hits : \A j \in hits : i <= j].name
      ELSE NoName

\* self.data after _resolve_boss_name: the alias lookup goes through
\* _aliases, which makes the guild's entry; the raw official name returns before
resolve_store(ps, d, g, user_text) ==
  IF user_text \in PresetNames(ps) THEN d ELSE ensure_guild(d, g)

(***************************** kill input **********************************)
\* jnow.replace(hour=h, minute=m, second=0, microsecond=0) as a timestamp
JstAt(n, h, m) ==
  LET j == n + JST_OFFSET_SEC
  IN  (j - (j % DAY_SEC)) + h * 3600 + m * 60 - JST_OFFSET_SEC

\* datetime.replace raises ValueError outside these ranges
ValidHM(hm) == hm.h <= 23 /\ hm.m <= 59

\* parts[1].isdigit() and 3 <= len(parts[1]) <= 4
IsTimeToken(parts) ==
  Len(parts) >= 2 /\ IsDigitStr(parts[2]) /\ Len(parts[2]) >= 3 /\ Len(parts[2]) <= 4

\* the kill moment taken as today at HH:MM whatever the clock says
KillMomentToday(n, tok) ==
  LET hm == zfill_hhmm(tok)
  IN  JstAt(n, hm.h, hm.m)

\* the kill moment of a time token: today at HH:MM, a day earlier if that is
\* later than now
KillMoment(n, tok) ==
  LET hm   == zfill_hhmm(tok)
      base == JstAt(n, hm.h, hm.m)
  IN  IF base > n THEN base - DAY_SEC ELSE base

\* _parse_kill_input. res: "none" (returns None), "raise" (ValueError leaves
\* the handler), "ok"; the override is (ovr_given, ovr_min)
parse_kill_input(ps, user_alias, n, parts) ==
  LET off  == IF Len(parts) = 0 THEN NoName
              ELSE resolve_boss_name(ps, user_alias, parts[1])
      hasH == Len(parts) >= 3 /\ EndsWith(Lower(parts[3]), "h")
      num  == IF hasH THEN SubSeq(parts[3], 1, Len(parts[3]) - 1) ELSE <<>>
      ovr  == hasH /\ FloatOK(num)
      none == [res |-> "none", name |-> NoName, kill_dt |-> n,
               ovr_given |-> FALSE, ovr_min |-> 0]
  IN  IF off = NoName THEN none
      ELSE IF IsTimeToken(parts) /\ ~ValidHM(zfill_hhmm(parts[2]))
        THEN [none EXCEPT !.res = "raise", !.name = off]
      ELSE [res |-> "ok", name |-> off,
            kill_dt |-> IF IsTimeToken(parts) THEN KillMoment(n, parts[2]) ELSE n,
            ovr_given |-> ovr,
            ovr_min |-> IF ovr THEN HoursToMin(num) ELSE 0]

\* dt_to_ts(when_jst.astimezone(utc) + timedelta(minutes=st.respawn_min))
SpawnAfter(base, minutes) == base + minutes * 60

\* on_message, the kill branch: the record written for a parsed kill input
KillRecord(st, c, p) ==
  LET rm == IF p.ovr_given /\ p.ovr_min # 0 THEN p.ovr_min ELSE st.respawn_min
  IN  [st EXCEPT !.respawn_min = rm,
                 !.channel_id = IF Truthy(st.channel_id) THEN st.channel_id ELSE c,
                 !.next_spawn_utc = SpawnAfter(p.kill_dt, rm),
                 !.skip = 0]

\* history: an occurrence set at moment n, before its pre-warn window opens
SetEarly(occurrence, n) == n < occurrence - PRE_LEAD_SEC - MERGE_WINDOW_SEC

Event(op, g, c, parts, res, name, kill, og, om) ==
  [op |-> op, g |-> g, c |-> c, parts |-> parts, res |-> res, name |-> name,
   kill |-> kill, ovr_given |-> og, ovr_min |-> om]

\* Store.save skipped: the file keeps what it held
save_skipped(d) == disk

\* Store.save(self.data): what the file holds afterwards
save(d) == d

\* the file after a handler for guild g that went through _ensure_guild:
\* _set_boss, _set_channels and the alias commands save what they wrote,
\* _ensure_guild saves the entry it made
Persist(g, wrote) ==
  IF wrote THEN save(data')
  ELSE IF g \notin DOMAIN data THEN save(ensure_guild(data, g))
  ELSE disk

\* history: the misses of one boss forgotten at its kill or reset
Forget(ms, keys) == {m \in ms : <<m[1], m[2]>> \notin keys}

\* what every message handler leaves alone
Msg == /\ nmsg' = nmsg + 1
       /\ UNCHANGED <<now, presets, lastTick, nstep, scan>>

\* on_message for a text that is no command: a kill input, or chat
OnMessageKill(g, c, parts) ==
  LET d0 == ensure_guild(data, g)
      p  == parse_kill_input(presets, aliases_of(data, g), now, parts)
      st == get_boss_or_new(presets, d0, g, p.name)
  IN  /\ Msg
      /\ UNCHANGED <<sent, emitted>>
      /\ IF c \notin channels_of(data, g)
         THEN /\ data' = d0
              /\ track' = track
              /\ ev' = Event("kill", g, c, parts, "ignored", NoName, now, FALSE, 0)
         ELSE /\ data' = IF p.res = "ok" THEN set_boss(d0, g, KillRecord(st, c, p))
                         ELSE d0
              /\ track' = IF p.res = "ok"
                          THEN Put(track, <<g, p.name>>,
                                   [anchor |-> KillRecord(st, c, p).next_spawn_utc,
                                    early |-> SetEarly(KillRecord(st, c, p).next_spawn_utc, now)])
                          ELSE track
              /\ ev' = Event("kill", g, c, parts, p.res, p.name, p.kill_dt,
                             p.ovr_given, p.ovr_min)
      /\ missed' = IF c \in channels_of(data, g) /\ p.res = "ok"
                   THEN Forget(missed, {<<g, p.name>>}) ELSE missed
      /\ disk' = Persist(g, c \in channels_of(data, g) /\ p.res = "ok")

\* hereon
Hereon(g, c) ==
  LET d0 == ensure_guild(data, g)
  IN  /\ Msg
      /\ UNCHANGED <<sent, emitted, track, missed>>
      /\ data' = [d0 EXCEPT ![g].channels = @ \cup {c}]
      /\ ev' = Event("hereon", g, c, <<>>, "ok", NoName, now, FALSE, 0)
      /\ disk' = Persist(g, c \notin d0[g].channels)

\* hereoff
Hereoff(g, c) ==
  LET d0 == ensure_guild(data, g)
  IN  /\ Msg
      /\ UNCHANGED <<sent, emitted, track, missed>>
      /\ data' = [d0 EXCEPT ![g].channels = @ \ {c}]
      /\ ev' = Event("hereoff", g, c, <<>>, "ok", NoName, now, FALSE, 0)
      /\ disk' = Persist(g, c \in d0[g].channels)

\* alias <short> <official>: args are the tokens after "alias"
Alias(g, c, args) ==
  LET d0       == ensure_guild(data, g)
      short    == normalize_for_match(args[1])
      r        == resolve_boss_name(presets, d0[g].aliases, args[2])
      official == IF r # NoName THEN r ELSE args[2]
  IN  /\ Msg
      /\ UNCHANGED <<sent, emitted, track, missed>>
      /\ IF Len(args) < 2
         THEN /\ data' = data
              /\ ev' = Event("alias", g, c, args, "usage", NoName, now, FALSE, 0)
         ELSE IF official \notin PresetNames(presets)
         THEN /\ data' = resolve_store(presets, data, g, args[2])
              /\ ev' = Event("alias", g, c, args, "unknown", NoName, now, FALSE, 0)
         ELSE /\ data' = [d0 EXCEPT ![g].aliases = Put(@, short, official)]
              /\ ev' = Event("alias", g, c, args, "ok", official, now, FALSE, 0)
      /\ disk' = IF Len(args) < 2 THEN disk
                 ELSE IF official \notin PresetNames(presets)
                   THEN (IF data' # data THEN save(data') ELSE disk)
                 ELSE Persist(g, TRUE)

\* unalias <short>: args are the tokens after "unalias"
Unalias(g, c, args) ==
  LET d0    == ensure_guild(data, g)
      short == normalize_for_match(args[1])
  IN  /\ Msg
      /\ UNCHANGED <<sent, emitted, track, missed>>
      /\ IF Len(args) < 1
         THEN /\ data' = data
              /\ ev' = Event("unalias", g, c, args, "usage", NoName, now, FALSE, 0)
         ELSE IF short \notin DOMAIN d0[g].aliases
         THEN /\ data' = d0
              /\ ev' = Event("unalias", g, c, args, "unknown", NoName, now, FALSE, 0)
         ELSE /\ data' = [d0 EXCEPT ![g].aliases = Drop(@, short)]
              /\ ev' = Event("unalias", g, c, args, "ok", d0[g].aliases[short], now, FALSE, 0)
      /\ disk' = IF Len(args) < 1 THEN disk
                 ELSE Persist(g, short \in DOMAIN d0[g].aliases)

(***************************** rh and reset ********************************)
\* the interval change that also moves a set occurrence by the new interval
RhRecordRearm(st, minutes) ==
  [st EXCEPT !.respawn_min = minutes,
             !.next_spawn_utc = IF @ = None THEN @ ELSE @ + minutes * 60]

\* rh: st.respawn_min = int(round(h * 60)), nothing else of the record
RhRecord(st, minutes) == [st EXCEPT !.respawn_min = minutes]

\* rh <name> <hours>: args are the tokens after "rh"
Rh(g, c, args) ==
  LET d0   == ensure_guild(data, g)
      r    == resolve_boss_name(presets, d0[g].aliases, args[1])
      name == IF r # NoName THEN r ELSE args[1]
      num  == rstrip_h(args[2])
      st   == get_boss_or_new(presets, d0, g, name)
  IN  /\ Msg
      /\ UNCHANGED <<sent, emitted, missed>>
      /\ IF Len(args) < 2
         THEN /\ data' = data
              /\ track' = track
              /\ ev' = Event("rh", g, c, args, "usage", NoName, now, FALSE, 0)
         ELSE IF ~FloatOK(num)
         THEN /\ data' = resolve_store(presets, data, g, args[1])
              /\ track' = track
              /\ ev' = Event("rh", g, c, args, "usage", name, now, FALSE, 0)
         ELSE /\ data' = set_boss(d0, g, RhRecord(st, HoursToMin(num)))
              /\ track' = IF <<g, name>> \in DOMAIN track
                          THEN [track EXCEPT ![<<g, name>>].anchor = None] ELSE track
              /\ ev' = Event("rh", g, c, args, "ok", name, now, TRUE, HoursToMin(num))
      /\ disk' = IF Len(args) < 2 THEN disk
                 ELSE IF ~FloatOK(num)
                   THEN (IF data' # data THEN save(data') ELSE disk)
                 ELSE Persist(g, TRUE)

\* the per-boss computation with one rule for every boss: baseline plus interval
ResetRecordUniform(ps, st, base) ==
  LET own == [respawn_min |-> st.respawn_min, rate |-> st.rate,
              first_delay_min |-> st.first_delay_min]
      t   == PresetGet(ps, st.name, own)
  IN  [st EXCEPT !.respawn_min = t.respawn_min, !.rate = t.rate,
                 !.first_delay_min = t.first_delay_min,
                 !.next_spawn_utc = SpawnAfter(base, t.respawn_min), !.skip = 0]

\* _reset_all, the per-boss computation
ResetRecord(ps, st, base) ==
  LET own == [respawn_min |-> st.respawn_min, rate |-> st.rate,
              first_delay_min |-> st.first_delay_min]
      t   == PresetGet(ps, st.name, own)
      nxt == IF t.rate = 100 /\ t.first_delay_min = 0 THEN None
             ELSE IF t.rate = 100 /\ t.first_delay_min > 0
               THEN SpawnAfter(base, t.first_delay_min)
             ELSE IF t.rate \in {50, 33} /\ t.first_delay_min = 0
               THEN SpawnAfter(base, t.respawn_min)
             ELSE SpawnAfter(base, t.first_delay_min)
  IN  [st EXCEPT !.respawn_min = t.respawn_min, !.rate = t.rate,
                 !.first_delay_min = t.first_delay_min,
                 !.next_spawn_utc = nxt, !.skip = 0]

\* _reset_all: seed every preset when the guild has no boss at all, then
\* recompute every boss of the guild
reset_all(ps, d, g, base) ==
  LET d0     == ensure_guild(d, g)
      old    == d0[g].bosses
      seeded == IF DOMAIN old = {} THEN [n \in PresetNames(ps) |-> NewBoss(ps, n)]
                ELSE old
  IN  [d0 EXCEPT ![g].bosses = [n \in DOMAIN seeded |-> ResetRecord(ps, seeded[n], base)]]

\* history: after a reset every boss of the guild with an occurrence is anchored
\* to it, the others to none
TrackReset(tr, g, bosses, n) ==
  LET mine == {<<g, nm>> : nm \in DOMAIN bosses}
      set  == {k \in mine : bosses[k[2]].next_spawn_utc # None}
  IN  [k \in (DOMAIN tr \ mine) \cup set |->
         IF k \in set THEN [anchor |-> bosses[k[2]].next_spawn_utc,
                             early |-> SetEarly(bosses[k[2]].next_spawn_utc, n)]
         ELSE tr[k]]

\* reset <HHMM>: args are the tokens after "reset"
Reset(g, c, args) ==
  LET ok == Len(args) = 1 /\ IsDigitStr(args[1])
      hm == zfill_hhmm(args[1])
  IN  /\ Msg
      /\ UNCHANGED <<sent, emitted>>
      /\ IF ~ok
         THEN /\ data' = data
              /\ track' = track
              /\ ev' = Event("reset", g, c, args, "usage", NoName, now, FALSE, 0)
         ELSE IF ~ValidHM(hm)
         THEN /\ data' = data
              /\ track' = track
              /\ ev' = Event("reset", g, c, args, "raise", NoName, now, FALSE, 0)
         ELSE /\ data' = reset_all(presets, data, g, JstAt(now, hm.h, hm.m))
              /\ track' = TrackReset(track, g,
                                     reset_all(presets, data, g, JstAt(now, hm.h, hm.m))[g].bosses,
                                     now)
              /\ ev' = Event("reset", g, c, args, "ok", NoName,
                             JstAt(now, hm.h, hm.m), FALSE, 0)
      /\ missed' = IF ok /\ ValidHM(hm)
                   THEN Forget(missed, {g} \X DOMAIN data'[g].bosses) ELSE missed
      /\ disk' = IF ok /\ ValidHM(hm) THEN Persist(g, DOMAIN data'[g].bosses # {})
                 ELSE disk

(********************************* bt **************************************)
Perms(S) == {f \in [1..Cardinality(S) -> S] : \A x \in S : \E i \in DOMAIN f : f[i] = x}

\* _send_bt: the bosses listed, those with an occurrence no further than the
\* horizon ahead
BtListed(bosses, horizon, n) ==
  {nm \in DOMAIN bosses :
     /\ Truthy(bosses[nm].next_spawn_utc)
     /\ horizon = None \/ ~(bosses[nm].next_spawn_utc - n > horizon * 3600)}

\* items.sort(key=lambda x: x[0]): by occurrence; equal occurrences stay in the
\* order the bosses dict holds them, which the model does not keep
BtOrders(bosses, listed) ==
  {s \in Perms(listed) :
     \A i, j \in DOMAIN s :
       i < j => bosses[s[i]].next_spawn_utc <= bosses[s[j]].next_spawn_utc}

\* bt / bt3 / bt6 / bt12 / bt24: horizon in hours, None for bt
Bt(g, c, horizon) ==
  LET d0 == ensure_guild(data, g)
  IN  /\ Msg
      /\ UNCHANGED <<sent, emitted, track, missed>>
      /\ data' = d0
      /\ \E items \in BtOrders(d0[g].bosses, BtListed(d0[g].bosses, horizon, now)) :
           ev' = Event("bt", g, c, <<>>, "ok", NoName, now, FALSE, 0)
                   @@ [items |-> items, horizon |-> horizon]
      /\ disk' = Persist(g, FALSE)

(******************************** tick *************************************)
Abs(x) == IF x < 0 THEN 0 - x ELSE x

\* if not st.next_spawn_utc or not st.channel_id: continue
Scanned(st) == Truthy(st.next_spawn_utc) /\ Truthy(st.channel_id)

\* the key without the occurrence: one marker per kind, channel and boss
EventKeyNoTime(kind, st) == <<kind, st.channel_id, 0, st.name>>

\* pre_key / now_key: f"{kind}|{st.channel_id}|{st.next_spawn_utc}|{st.name}"
EventKey(kind, st) == <<kind, st.channel_id, st.next_spawn_utc, st.name>>

\* _already_sent
already_sent(bucket, key, n) == key \in DOMAIN bucket /\ bucket[key] >= n

\* _cleanup_sent, one guild's bucket
cleanup_sent(bucket, n) ==
  LET keep == {k \in DOMAIN bucket : ~(bucket[k] < n)}
  IN  [k \in keep |-> bucket[k]]

\* the expiry without the TTL added
mark_ttl_forgotten(n) == n

\* _mark_sent: the expiry written
mark_ttl(n) == n + NOTIFY_DEDUP_TTL_SEC

\* the pre-warn window without its lead
InPreWindowNoLead(st, n) == Abs(n - st.next_spawn_utc) <= MERGE_WINDOW_SEC

InPreWindow(st, n) == Abs(n - (st.next_spawn_utc - PRE_LEAD_SEC)) <= MERGE_WINDOW_SEC
InNowWindow(st, n) == Abs(n - st.next_spawn_utc) <= MERGE_WINDOW_SEC

\* the auto slide re-armed from the scan moment instead of the missed occurrence
SlideFromNow(st, n) ==
  IF n - st.next_spawn_utc >= MISS_SEC
  THEN [st EXCEPT !.next_spawn_utc = n + st.respawn_min * 60, !.skip = @ + 1]
  ELSE st

\* the auto slide taken as soon as the occurrence is reached
SlideAtOnce(st, n) ==
  IF n - st.next_spawn_utc >= 0
  THEN [st EXCEPT !.next_spawn_utc = @ + st.respawn_min * 60, !.skip = @ + 1]
  ELSE st

\* the auto slide of one scanned boss
Slide(st, n) ==
  IF n - st.next_spawn_utc >= MISS_SEC
  THEN [st EXCEPT !.next_spawn_utc = @ + st.respawn_min * 60, !.skip = @ + 1]
  ELSE st

\* the bosses of guild g that get a label of the given kind in a tick at n
Due(kind, d, bucket, g, n) ==
  {nm \in DOMAIN d[g].bosses :
     LET st == d[g].bosses[nm]
     IN  /\ Scanned(st)
         /\ IF kind = "pre" THEN InPreWindow(st, n) ELSE InNowWindow(st, n)
         /\ ~already_sent(bucket, EventKey(kind, st), n)}

\* the characters of the model's texts in code point order
CodeOrder ==
  << "!", "+", "-", ".", "0", "1", "2", "3", "4", "5", "6", "7", "8", "9",
     "B", "H", "Q", "X", "a", "b", "c", "d", "h", "q", "x", "z" >>
Code(ch) == CHOOSE i \in DOMAIN CodeOrder : CodeOrder[i] = ch

\* Python's < on two label texts that differ first inside the names a and b,
\* each followed by a blank in its label: the blank sorts before every character
StrLess(a, b) ==
  \E i \in 1..(Len(a) + 1) :
    /\ i <= Len(b)
    /\ \A j \in 1..(i - 1) : a[j] = b[j]
    /\ i = Len(a) + 1 \/ Code(a[i]) < Code(b[i])

\* ts_to_jst_str: "%H:%M:%S" in JST; as texts these compare as the seconds of the day
JstClock(ts) == (ts + JST_OFFSET_SEC) % DAY_SEC

\* sorted(arr) on pre-warn labels "<HH:MM:SS> : <name> <flags>"
PreLabelLess(a, b) ==
  \/ JstClock(a.next) < JstClock(b.next)
  \/ JstClock(a.next) = JstClock(b.next) /\ StrLess(a.name, b.name)

\* sorted(arr) on occurrence labels "<name> ... [<HH:MM:SS>] (skip:<n>) <flags>"
NowLabelLess(a, b) == StrLess(a.name, b.name)

LabelLess(kind, a, b) == IF kind = "pre" THEN PreLabelLess(a, b) ELSE NowLabelLess(a, b)

\* "\n".join(sorted(arr)) as the sequence of its lines
SortedLines(kind, entries) ==
  CHOOSE s \in Perms(entries) :
    \A i, j \in DOMAIN s : i < j => LabelLess(kind, s[i], s[j])

Line(st) == [name |-> st.name, next |-> st.next_spawn_utc]

\* one send for every label of a kind
DigestsPerLabel(kind, bosses, g, due) ==
  {[kind |-> kind, g |-> g, channel |-> bosses[nm].channel_id,
    lines |-> <<Line(bosses[nm])>>] : nm \in due}

\* the aggregated sends of one guild and kind: one message per channel that
\* has a label
Digests(kind, bosses, g, due) ==
  {[kind |-> kind, g |-> g, channel |-> c,
    lines |-> SortedLines(kind, {Line(bosses[nm]) : nm \in {x \in due : bosses[x].channel_id = c}})]
     : c \in {bosses[nm].channel_id : nm \in due}}

Bump(f, keys) ==
  [k \in DOMAIN f \cup keys |->
     IF k \in keys THEN (IF k \in DOMAIN f THEN f[k] + 1 ELSE 1) ELSE f[k]]

\* tick, with the bot ready and every guild in its cache
TickBody ==
  LET clean == [g \in Guilds |-> cleanup_sent(sent[g], now)]
      due(kind, g) == IF g \in DOMAIN data THEN Due(kind, data, clean[g], g, now) ELSE {}
      keys(g) == {EventKey("pre", data[g].bosses[nm]) : nm \in due("pre", g)}
                 \cup {EventKey("now", data[g].bosses[nm]) : nm \in due("now", g)}
      hist == UNION {
                {<<"pre", g, nm, data[g].bosses[nm].next_spawn_utc>> : nm \in due("pre", g)}
                \cup {<<"now", g, nm, data[g].bosses[nm].next_spawn_utc>> : nm \in due("now", g)}
                : g \in Guilds}
  IN  /\ sent' = [g \in Guilds |->
                    [k \in DOMAIN clean[g] \cup keys(g) |->
                       IF k \in keys(g) THEN mark_ttl(now) ELSE clean[g][k]]]
      /\ data' = [g \in DOMAIN data |->
                    [data[g] EXCEPT !.bosses =
                       [nm \in DOMAIN @ |-> IF Scanned(@[nm]) THEN Slide(@[nm], now)
                                            ELSE @[nm]]]]
      /\ emitted' = Bump(emitted, hist)
      /\ track' = [k \in DOMAIN track |->
                     IF data'[k[1]].bosses[k[2]].next_spawn_utc
                          # data[k[1]].bosses[k[2]].next_spawn_utc
                     THEN [track[k] EXCEPT !.early =
                             SetEarly(data'[k[1]].bosses[k[2]].next_spawn_utc, now)]
                     ELSE track[k]]
      /\ ev' = Event("tick", 0, 0, <<>>, "ok", NoName, now, FALSE, 0)
                  @@ [labels |-> hist,
                      msgs |-> UNION {Digests("pre", data[g].bosses, g, due("pre", g))
                                        \cup Digests("now", data[g].bosses, g, due("now", g))
                                      : g \in DOMAIN data}]
      /\ missed' = missed \cup UNION {
                     {<<g, nm, data[g].bosses[nm].next_spawn_utc>> : nm \in
                        {x \in DOMAIN data[g].bosses :
                           /\ Scanned(data[g].bosses[x])
                           /\ Slide(data[g].bosses[x], now) # data[g].bosses[x]}}
                     : g \in DOMAIN data}
      /\ disk' = IF data' # data THEN save(data') ELSE disk
      /\ UNCHANGED <<now, presets, nmsg, nstep, scan>>

\* the scanner runs, at any moment
Tick == TickBody /\ UNCHANGED lastTick

\* the scanner runs CHECK_SEC after it last ran
TickOnTime == now = lastTick + CHECK_SEC /\ TickBody /\ lastTick' = now

\* time passes
Pass ==
  /\ nstep' = nstep + 1
  /\ now' = now + ClockStep
  /\ ev' = Event("pass", 0, 0, <<>>, "ok", NoName, 0, FALSE, 0)
  /\ UNCHANGED <<presets, data, sent, lastTick, emitted, track, nmsg, scan, missed, disk>>

\* time passes, never past the moment the scanner is due
PassOnTime == now + ClockStep <= lastTick + CHECK_SEC /\ Pass

(************************ tick, with its suspensions ***********************)
\* tick runs without a suspension from its start through the record loop of
\* every guild that gets no label; its awaits are the channel fetches and sends
\* of a guild that got one. A message handler runs between two segments.

\* no tick in progress
ScanIdle == [n |-> None, todo |-> <<>>, snap |-> EmptyDict]

\* the records taken from the copy of the store made when the tick began
ScanReadAtBegin(d, began) == began

\* self._all_bosses(guild.id), called when the guild's turn comes: the records
\* as they are then
ScanRead(d, began) == d

\* the bosses that get a label of a kind: the windows against the tick's n, the
\* markers against the clock t (_already_sent reads now_utc() itself)
ScanDue(kind, bosses, bucket, n, t) ==
  {nm \in DOMAIN bosses :
     LET st == bosses[nm]
     IN  /\ Scanned(st)
         /\ IF kind = "pre" THEN InPreWindow(st, n) ELSE InNowWindow(st, n)
         /\ ~already_sent(bucket, EventKey(kind, st), t)}

\* one segment of a tick that read n at its start and has the guilds of todo
\* still to scan: it scans them in order up to and including the first that
\* gets a label, and is suspended there in its sends, or ends
ScanSegment(n, todo, buckets, began) ==
  LET bossesOf(g) == ScanRead(data, began)[g].bosses
      due(kind, g) == ScanDue(kind, bossesOf(g), buckets[g], n, now)
      stops == {i \in DOMAIN todo : due("pre", todo[i]) \cup due("now", todo[i]) # {}}
      last  == IF stops = {} THEN Len(todo)
               ELSE CHOOSE i \in stops : \A j \in stops : i <= j
      turn  == {todo[i] : i \in 1..last}
      slid(g) == {nm \in DOMAIN bossesOf(g) :
                    /\ Scanned(bossesOf(g)[nm])
                    /\ Slide(bossesOf(g)[nm], n) # bossesOf(g)[nm]}
      keys(g) == {EventKey("pre", bossesOf(g)[nm]) : nm \in due("pre", g)}
                 \cup {EventKey("now", bossesOf(g)[nm]) : nm \in due("now", g)}
      hist == UNION {
                {<<"pre", g, nm, bossesOf(g)[nm].next_spawn_utc>> : nm \in due("pre", g)}
                \cup {<<"now", g, nm, bossesOf(g)[nm].next_spawn_utc>> : nm \in due("now", g)}
                : g \in turn}
  IN  /\ sent' = [g \in Guilds |->
                    IF g \in turn
                    THEN [k \in DOMAIN buckets[g] \cup keys(g) |->
                            IF k \in keys(g) THEN mark_ttl(now) ELSE buckets[g][k]]
                    ELSE buckets[g]]
      /\ data' = [g \in DOMAIN data |->
                    IF g \in turn
                    THEN [data[g] EXCEPT !.bosses =
                            [nm \in DOMAIN @ \cup slid(g) |->
                               IF nm \in slid(g) THEN Slide(bossesOf(g)[nm], n) ELSE @[nm]]]
                    ELSE data[g]]
      /\ emitted' = Bump(emitted, hist)
      /\ track' = [k \in DOMAIN track |->
                     IF data'[k[1]].bosses[k[2]].next_spawn_utc
                          # data[k[1]].bosses[k[2]].next_spawn_utc
                     THEN [track[k] EXCEPT !.early =
                             SetEarly(data'[k[1]].bosses[k[2]].next_spawn_utc, now)]
                     ELSE track[k]]
      /\ missed' = missed \cup UNION {
                     {<<g, nm, bossesOf(g)[nm].next_spawn_utc>> : nm \in slid(g)} : g \in turn}
      /\ disk' = IF data' # data THEN save(data') ELSE disk
      /\ scan' = IF stops = {} THEN ScanIdle
                 ELSE [n |-> n, todo |-> SubSeq(todo, last + 1, Len(todo)), snap |-> began]
      /\ ev' = Event("scan", 0, 0, <<>>, "ok", NoName, n, FALSE, 0)
                  @@ [labels |-> hist, guilds |-> turn,
                      slid  |-> UNION {{<<g, nm>> : nm \in slid(g)} : g \in turn},
                      stale |-> {k \in UNION {{<<g, nm>> : nm \in DOMAIN data[g].bosses}
                                                 : g \in turn} :
                                   \/ k[2] \notin DOMAIN began[k[1]].bosses
                                   \/ began[k[1]].bosses[k[2]] # data[k[1]].bosses[k[2]]}]
      /\ UNCHANGED <<now, presets, nmsg, nstep>>

\* the tick begins, CHECK_SEC after the last one began or as soon after that as
\* the last one has returned: _cleanup_sent, n = now_utc(), list(self.data.keys()),
\* whose order (the order the guilds were first seen) the model's store does not keep
ScanBegin ==
  /\ scan = ScanIdle
  /\ now >= lastTick + CHECK_SEC
  /\ lastTick' = now
  /\ \E order \in Perms(DOMAIN data) :
       ScanSegment(now, order, [g \in Guilds |-> cleanup_sent(sent[g], now)], data)

\* the sends of the guild the tick was suspended in are done: it goes on with
\* the next guild, or returns
ScanResume ==
  /\ scan # ScanIdle
  /\ UNCHANGED lastTick
  /\ ScanSegment(scan.n, scan.todo, sent, scan.snap)

(***************************** behaviours **********************************)
\* stores a run can start from: a fresh one, or one saved with a monitored channel
InitStores ==
  {EmptyDict, [g \in {1} |-> [NewGuild EXCEPT !.channels = {11}]]}

InitWith(ps) ==
  /\ now = StartTime
  /\ presets = ps
  /\ data \in InitStores
  /\ sent = [g \in Guilds |-> EmptyDict]
  /\ lastTick = StartTime
  /\ emitted = EmptyDict
  /\ track = EmptyDict
  /\ ev = Event("start", 0, 0, <<>>, "ok", NoName, 0, FALSE, 0)
  /\ nmsg = 0
  /\ nstep = 0
  /\ scan = ScanIdle
  /\ missed = {}
  /\ disk = data

Init == InitWith(Catalog)

T0858 == <<"0", "8", "5", "8">>
T0859 == <<"0", "8", "5", "9">>
T0857 == <<"0", "8", "5", "7">>
LowBca == <<"b", "c", "a">>

\* ---- Spec: the scheduler over time, scans at any moment ----
SpecPlaces == {<<1, 11>>, <<2, 21>>}
SpecKills == {<<NameBd, T0858>>, <<NameXbc, T0859>>, <<NameXbc, T0857>>}
SpecRhs == {<<NameBd, <<"0", ".", "1", "h">>>>}
SpecResets == {<<T0857>>}

Next ==
  \/ nstep < MaxSteps /\ Pass
  \/ Tick
  \/ nmsg < MaxMsgs /\ \E pl \in SpecPlaces : Hereon(pl[1], pl[2])
  \/ nmsg < MaxMsgs /\ \E pl \in SpecPlaces, parts \in SpecKills :
                         OnMessageKill(pl[1], pl[2], parts)
  \/ nmsg < MaxMsgs /\ \E pl \in SpecPlaces, args \in SpecRhs : Rh(pl[1], pl[2], args)
  \/ nmsg < MaxMsgs /\ \E pl \in SpecPlaces, args \in SpecResets : Reset(pl[1], pl[2], args)

Spec == Init /\ [][Next]_vars

\* ---- SpecInput: what one message does to the records ----
\* a second bosses_preset.json, with the rates and delays the first one lacks
CatalogB == << Row(NameXbc, 1, 33, 0), Row(NameBca, 2, 50, 2), Row(NameBd, 3, 70, 0) >>

InMsgs == 2
InSteps == 1

T0900 == <<"0", "9", "0", "0">>
T0901 == <<"0", "9", "0", "1">>
T859  == <<"8", "5", "9">>
T0960 == <<"0", "9", "6", "0">>
T12   == <<"1", "2">>
H0    == <<"0", "h">>
H005  == <<"0", ".", "0", "5", "h">>

InputKills ==
  { <<NameBd, T0858>>, <<NameBd, T0858, H0>>, <<NameBd, T0858, H005>>, <<NameBd, T12>>,
    <<NameBd>>, <<NameXbc, T0901>>, <<NameXbc, T0900>>, <<NameBca, T859>>,
    <<NameBd, T0960>> }
InputResets == { <<T0857>>, <<T0900>> }

InitInput == \E ps \in {Catalog, CatalogB} : InitWith(ps)

\* two scans in a row are left to Spec: here a scan follows a message or a clock step
NextInput ==
  \/ nstep < InSteps /\ Pass
  \/ ev.op # "tick" /\ Tick
  \/ nmsg < InMsgs /\ \E pl \in SpecPlaces : Hereon(pl[1], pl[2])
  \/ nmsg < InMsgs /\ \E pl \in SpecPlaces : Hereoff(pl[1], pl[2])
  \/ nmsg < InMsgs /\ \E pl \in SpecPlaces, parts \in InputKills :
                        OnMessageKill(pl[1], pl[2], parts)
  \/ nmsg < InMsgs /\ \E pl \in SpecPlaces, args \in InputResets : Reset(pl[1], pl[2], args)

SpecInput == InitInput /\ [][NextInput]_vars

\* ---- SpecNames: names and aliases ----
NameMsgs == 3

TextB  == <<"b">>
TextBc == <<"b", "c">>
TextX  == <<"x">>
TextQ  == <<"Q">>
TextZz == <<"z", "z">>

NameKills == { <<TextB>>, <<TextBc>>, <<TextX>>, <<TextQ>>, <<TextZz>>, <<NameBd>>, <<LowBca>> }
NameAliases == { <<TextQ, TextB>>, <<TextB, NameBd>>, <<TextQ, TextZz>> }
NameUnaliases == { <<TextQ>>, <<TextB>> }

NextNames ==
  \/ nmsg < NameMsgs /\ \E pl \in SpecPlaces : Hereon(pl[1], pl[2])
  \/ nmsg < NameMsgs /\ \E pl \in SpecPlaces, parts \in NameKills :
                          OnMessageKill(pl[1], pl[2], parts)
  \/ nmsg < NameMsgs /\ \E pl \in SpecPlaces, args \in NameAliases : Alias(pl[1], pl[2], args)
  \/ nmsg < NameMsgs /\ \E pl \in SpecPlaces, args \in NameUnaliases : Unalias(pl[1], pl[2], args)

SpecNames == Init /\ [][NextNames]_vars

\* ---- SpecRegular: the scanner runs every CHECK_SEC ----
RegSteps == 64

RegularKills == { <<NameBd, T0859>>, <<NameXbc, T0900>> }

InitRegular ==
  /\ now = StartTime
  /\ presets = Catalog
  /\ data \in InitStores
  /\ sent = [g \in Guilds |-> EmptyDict]
  /\ lastTick \in {StartTime - ClockStep, StartTime}
  /\ emitted = EmptyDict
  /\ track = EmptyDict
  /\ ev = Event("start", 0, 0, <<>>, "ok", NoName, 0, FALSE, 0)
  /\ nmsg = 0
  /\ nstep = 0
  /\ scan = ScanIdle
  /\ missed = {}
  /\ disk = data

NextRegular ==
  \/ nstep < RegSteps /\ PassOnTime
  \/ TickOnTime
  \/ nmsg < MaxMsgs /\ \E pl \in SpecPlaces : Hereon(pl[1], pl[2])
  \/ nmsg < MaxMsgs /\ \E pl \in SpecPlaces, parts \in RegularKills :
                         OnMessageKill(pl[1], pl[2], parts)

SpecRegular == InitRegular /\ [][NextRegular]_vars

\* ---- SpecOps: every message handler, two guilds ----
OpsMsgs == 2
OpsSteps == 1

H4 == <<"4", "h">>
H1 == <<"1", "h">>
H01 == <<"0", ".", "1", "h">>

OpsKills == { <<NameXbc, T0857>>, <<NameBd, T0858>>, <<NameBd, T0858, H4>>, <<NameBd>> }
OpsRhs == { <<NameBd, H01>>, <<TextZz, H1>> }
OpsAliases == { <<NameBd, NameBca>>, <<TextQ, TextZz>>, <<TextQ, TextX>> }
OpsUnaliases == { <<TextQ>> }
OpsHorizons == { None, 3 }

NextOps ==
  \/ nstep < OpsSteps /\ Pass
  \/ ev.op # "tick" /\ Tick
  \/ nmsg < OpsMsgs /\ \E pl \in SpecPlaces : Hereon(pl[1], pl[2])
  \/ nmsg < OpsMsgs /\ \E pl \in SpecPlaces : Hereoff(pl[1], pl[2])
  \/ nmsg < OpsMsgs /\ \E pl \in SpecPlaces, parts \in OpsKills :
                         OnMessageKill(pl[1], pl[2], parts)
  \/ nmsg < OpsMsgs /\ \E pl \in SpecPlaces, args \in OpsRhs : Rh(pl[1], pl[2], args)
  \/ nmsg < OpsMsgs /\ \E pl \in SpecPlaces, args \in SpecResets : Reset(pl[1], pl[2], args)
  \/ nmsg < OpsMsgs /\ \E pl \in SpecPlaces, args \in OpsAliases : Alias(pl[1], pl[2], args)
  \/ nmsg < OpsMsgs /\ \E pl \in SpecPlaces, args \in OpsUnaliases : Unalias(pl[1], pl[2], args)
  \/ nmsg < OpsMsgs /\ \E pl \in SpecPlaces, h \in OpsHorizons : Bt(pl[1], pl[2], h)

SpecOps == Init /\ [][NextOps]_vars

\* ---- SpecDigest: several bosses due in one scan, two channels of one guild ----
DigMsgs == 2
DigSteps == 26

DigestPlaces == {<<1, 11>>, <<1, 12>>}
DigestKills == { <<NameBca>>, <<NameXbc, T0901>>, <<NameBd, T0859>> }

NextDigest ==
  \/ nstep < DigSteps /\ PassOnTime
  \/ TickOnTime
  \/ nmsg < DigMsgs /\ \E pl \in DigestPlaces : Hereon(pl[1], pl[2])
  \/ nmsg < DigMsgs /\ \E pl \in DigestPlaces, parts \in DigestKills :
                         OnMessageKill(pl[1], pl[2], parts)

SpecDigest == Init /\ [][NextDigest]_vars

\* ---- SpecScan: message handlers between the segments of a tick ----
ScanMsgs == 2
ScanSteps == 2

\* a store file left by an earlier run: in guild 1 a boss whose occurrence is
\* now, in guild 2 a boss whose occurrence passed MISS_SEC ago
ScanStore ==
  [g \in Guilds |->
     IF g = 1
     THEN [NewGuild EXCEPT
             !.channels = {11},
             !.bosses = Put(EmptyDict, NameBd,
                            [NewBoss(Catalog, NameBd) EXCEPT
                               !.channel_id = 11, !.next_spawn_utc = StartTime])]
     ELSE [NewGuild EXCEPT
             !.channels = {21},
             !.bosses = Put(EmptyDict, NameXbc,
                            [NewBoss(Catalog, NameXbc) EXCEPT
                               !.channel_id = 21,
                               !.next_spawn_utc = StartTime - MISS_SEC])]]

ScanKills == { <<NameXbc, T0857>>, <<NameBd, T0858>> }

InitScan ==
  /\ now = StartTime
  /\ presets = Catalog
  /\ data = ScanStore
  /\ sent = [g \in Guilds |-> EmptyDict]
  /\ lastTick = StartTime - CHECK_SEC
  /\ emitted = EmptyDict
  /\ track = [k \in {<<1, NameBd>>, <<2, NameXbc>>} |->
                [anchor |-> ScanStore[k[1]].bosses[k[2]].next_spawn_utc, early |-> FALSE]]
  /\ ev = Event("start", 0, 0, <<>>, "ok", NoName, 0, FALSE, 0)
  /\ nmsg = 0
  /\ nstep = 0
  /\ scan = ScanIdle
  /\ missed = {}
  /\ disk = data

NextScan ==
  \/ nstep < ScanSteps /\ Pass
  \/ ScanBegin
  \/ ScanResume
  \/ nmsg < ScanMsgs /\ \E pl \in SpecPlaces, parts \in ScanKills :
                          OnMessageKill(pl[1], pl[2], parts)
  \/ nmsg < ScanMsgs /\ \E pl \in SpecPlaces, args \in SpecRhs : Rh(pl[1], pl[2], args)
  \/ nmsg < ScanMsgs /\ \E pl \in SpecPlaces, args \in SpecResets : Reset(pl[1], pl[2], args)

SpecScan == InitScan /\ [][NextScan]_vars

(******************************* properties ********************************)
Rec(k) == data[k[1]].bosses[k[2]]
AllNames == UNION {DOMAIN data[h].bosses : h \in DOMAIN data}
Recs == {k \in (DOMAIN data) \X AllNames : k[2] \in DOMAIN data[k[1]].bosses}
Count(kind, k, occurrence) ==
  IF <<kind, k[1], k[2], occurrence>> \in DOMAIN emitted
  THEN emitted[<<kind, k[1], k[2], occurrence>>] ELSE 0

\* C2: a scan advances every record whose occurrence lies 60 s or more back by
\* exactly one interval and one miss, and leaves every other record's occurrence
\* and miss count alone.
C2_ScanAdvancesEveryMissedRecordOnce ==
  [][ev'.op = "tick" =>
       \A k \in Recs :
         LET st  == data[k[1]].bosses[k[2]]
             st2 == data'[k[1]].bosses[k[2]]
         IN  IF st.next_spawn_utc # None /\ now - st.next_spawn_utc >= MISS_SEC
             THEN /\ st2.next_spawn_utc = st.next_spawn_utc + st.respawn_min * 60
                  /\ st2.skip = st.skip + 1
             ELSE /\ st2.next_spawn_utc = st.next_spawn_utc
                  /\ st2.skip = st.skip]_vars

\* C3: while no kill, reset or interval change intervenes, a record set to
\* occurrence N is at N plus its miss count times its interval.
C3_NoDrift ==
  \A k \in DOMAIN track :
    track[k].anchor # None =>
      Rec(k).next_spawn_utc = track[k].anchor + Rec(k).skip * (Rec(k).respawn_min * 60)

\* C3 witness: a record that the scan advanced twice from the occurrence it was set to
C3_Witness ==
  \E k \in DOMAIN track :
    /\ track[k].anchor # None
    /\ Rec(k).skip >= 2
    /\ Rec(k).respawn_min > 0
    /\ ev.op = "tick"

\* C4: after a scan at or past N + 60 s, every record set to occurrence N (with
\* or without a notify target) has been miss-advanced, by whole intervals counted
\* in its miss count.
C4_EveryMissedRecordCatchesUp ==
  ev.op = "tick" =>
    \A k \in DOMAIN track :
      (track[k].anchor # None /\ now >= track[k].anchor + MISS_SEC) =>
        /\ Rec(k).skip >= 1
        /\ Rec(k).next_spawn_utc =
             track[k].anchor + Rec(k).skip * (Rec(k).respawn_min * 60)

BossesOf(d, g) == IF g \in DOMAIN d THEN d[g].bosses ELSE EmptyDict
AliasesOf(d, g) == IF g \in DOMAIN d THEN d[g].aliases ELSE EmptyDict
LastKill == ev.op = "kill" /\ ev.res = "ok"

\* C1: after a kill input for E at moment T the record has occurrence T + I, I
\* being the override when one was given and E's interval otherwise, miss count
\* 0, and no live marker that suppresses the pre-warn or the occurrence
\* notification of that occurrence.
C1_KillSetsOccurrence ==
  LastKill =>
    LET st == data[ev.g].bosses[ev.name]
        I  == IF ev.ovr_given THEN ev.ovr_min ELSE st.respawn_min
    IN  /\ st.next_spawn_utc = ev.kill + I * 60
        /\ st.skip = 0
        /\ \A kind \in {"pre", "now"} : ~already_sent(sent[ev.g], EventKey(kind, st), now)

\* C6: with a scan every CHECK_SEC, a record with a notify target whose
\* occurrence N was set before the pre-warn window opened has exactly one
\* pre-warn once that window is over and exactly one occurrence notification once
\* the occurrence window is over, and never two of either.
C6_ExactlyOneEach ==
  \A k \in DOMAIN track :
    (Scanned(Rec(k)) /\ track[k].early) =>
      LET N == Rec(k).next_spawn_utc
      IN  /\ Count("pre", k, N) <= 1
          /\ Count("now", k, N) <= 1
          /\ now > N - PRE_LEAD_SEC + MERGE_WINDOW_SEC => Count("pre", k, N) = 1
          /\ now > N + MERGE_WINDOW_SEC => Count("now", k, N) = 1

\* C6 witness: both windows of such a record are over and both notifications
\* went out, the scanner having run all along
C6_Witness ==
  \E k \in DOMAIN track :
    /\ Scanned(Rec(k))
    /\ track[k].early
    /\ now > Rec(k).next_spawn_utc + MERGE_WINDOW_SEC
    /\ Count("pre", k, Rec(k).next_spawn_utc) = 1
    /\ Count("now", k, Rec(k).next_spawn_utc) = 1
    /\ lastTick > Rec(k).next_spawn_utc

ValidToken(tok) ==
  /\ IsDigitStr(tok)
  /\ Len(tok) \in {3, 4}
  /\ IntOf(tok) \div 100 <= 23
  /\ IntOf(tok) % 100 <= 59

\* C7: the kill moment of an input with a valid HH:MM token is the latest
\* HH:MM (JST) not after now, so killMoment <= now and now - killMoment < 24 h;
\* an input with no time token has killMoment = now.
C7_KillMomentInThePastDay ==
  LastKill =>
    /\ (Len(ev.parts) >= 2 /\ ValidToken(ev.parts[2])) =>
         /\ (ev.kill + JST_OFFSET_SEC) % DAY_SEC
              = (IntOf(ev.parts[2]) \div 100) * 3600 + (IntOf(ev.parts[2]) % 100) * 60
         /\ ev.kill <= now
         /\ now - ev.kill < DAY_SEC
    /\ Len(ev.parts) = 1 => ev.kill = now

\* C7 witness: a token later than the clock, taken as yesterday's
C7_Witness ==
  /\ LastKill
  /\ Len(ev.parts) >= 2
  /\ ValidToken(ev.parts[2])
  /\ now - ev.kill > DAY_SEC \div 2
  /\ data[ev.g].bosses[ev.name].next_spawn_utc < now

LastReset == ev.op = "reset" /\ ev.res = "ok"

\* C8 as stated: a bulk reset with baseline B leaves every record of the guild
\* at B + its interval with miss count 0.
C8_ResetUniform ==
  LastReset =>
    \A nm \in DOMAIN data[ev.g].bosses :
      LET st == data[ev.g].bosses[nm]
      IN  st.next_spawn_utc = ev.kill + st.respawn_min * 60 /\ st.skip = 0

\* C8: a bulk reset with baseline B leaves every record of the guild with miss
\* count 0 and with no occurrence when its rate is 100 and its first delay 0,
\* B + its interval when its rate is 50 or 33 and its first delay 0, and
\* B + its first delay otherwise.
C8_ResetByRateAndDelay ==
  LastReset =>
    \A nm \in DOMAIN data[ev.g].bosses :
      LET st == data[ev.g].bosses[nm]
      IN  /\ st.skip = 0
          /\ st.next_spawn_utc =
               IF st.rate = 100 /\ st.first_delay_min = 0 THEN None
               ELSE IF st.rate \in {50, 33} /\ st.first_delay_min = 0
                 THEN ev.kill + st.respawn_min * 60
               ELSE ev.kill + st.first_delay_min * 60

\* C8 witness: a reset that left one record without occurrence, one at the
\* baseline plus its interval and one at the baseline plus its first delay
C8_Witness ==
  /\ LastReset
  /\ \E nm \in DOMAIN data[ev.g].bosses : data[ev.g].bosses[nm].next_spawn_utc = None
  /\ \E nm \in DOMAIN data[ev.g].bosses :
       LET st == data[ev.g].bosses[nm]
       IN  /\ st.first_delay_min = 0
           /\ st.next_spawn_utc = ev.kill + st.respawn_min * 60
  /\ \E nm \in DOMAIN data[ev.g].bosses :
       LET st == data[ev.g].bosses[nm]
       IN  /\ st.first_delay_min > 0
           /\ st.first_delay_min # st.respawn_min
           /\ st.next_spawn_utc = ev.kill + st.first_delay_min * 60

Malformed(tok) == ~(IsDigitStr(tok) /\ Len(tok) \in {3, 4})

\* C9: a kill input whose second token is not 3-4 digits creates or changes no
\* record.
C9_MalformedTokenRejected ==
  [][(ev'.op = "kill" /\ Len(ev'.parts) >= 2 /\ Malformed(ev'.parts[2])) =>
       \A g \in DOMAIN data' : BossesOf(data', g) = BossesOf(data, g)]_vars

Ambiguous(ps, user_alias, text) ==
  LET key == normalize_for_match(text)
  IN  /\ text \notin PresetNames(ps)
      /\ key \notin DOMAIN user_alias
      /\ key \notin {normalize_for_match(ps[i].name) : i \in 1..Len(ps)}
      /\ Cardinality({i \in 1..Len(ps) :
                        Contains(normalize_for_match(ps[i].name), key)}) > 1

\* C10: a kill input whose name is no exact alias or canonical name and matches
\* more than one canonical name resolves to no boss and changes no record.
C10_AmbiguousNameRejected ==
  [][(/\ ev'.op = "kill"
      /\ Len(ev'.parts) >= 1
      /\ Ambiguous(presets, AliasesOf(data, ev'.g), ev'.parts[1]))
       => /\ ev'.name = NoName
          /\ \A g \in DOMAIN data' : BossesOf(data', g) = BossesOf(data, g)]_vars

\* C11: the occurrence and the miss count of an existing record change only in
\* a kill input, a bulk reset, or the miss-advance of a scan (one interval, one
\* miss, the occurrence 60 s or more back); rh, alias, unalias, hereon, hereoff,
\* bt and the notifying part of a scan leave both as they were.
C11_OccurrenceMovesOnlyByKillResetMiss ==
  [][\A k \in Recs :
       LET st  == data[k[1]].bosses[k[2]]
           st2 == data'[k[1]].bosses[k[2]]
       IN  (st2.next_spawn_utc # st.next_spawn_utc \/ st2.skip # st.skip) =>
             \/ ev'.op \in {"kill", "reset"}
             \/ /\ ev'.op = "tick"
                /\ st.next_spawn_utc # None
                /\ now - st.next_spawn_utc >= MISS_SEC
                /\ st2.next_spawn_utc = st.next_spawn_utc + st.respawn_min * 60
                /\ st2.skip = st.skip + 1]_vars

\* C11 witness: an rh that changed the interval of a record with a set occurrence
C11_Witness ==
  /\ ev.op = "rh"
  /\ ev.res = "ok"
  /\ has_boss(data, ev.g, ev.name)
  /\ data[ev.g].bosses[ev.name].next_spawn_utc # None
  /\ data[ev.g].bosses[ev.name].respawn_min = ev.ovr_min
  /\ ev.ovr_min # PresetGet(presets, ev.name, DefaultTuple).respawn_min

\* C12: a kill input without an interval override schedules with the catalog
\* interval of the boss: occurrence = kill moment + catalog interval, whatever
\* interval an earlier override or rh left in the record.
C12_KillWithoutOverrideUsesCatalog ==
  (LastKill /\ ~ev.ovr_given) =>
    data[ev.g].bosses[ev.name].next_spawn_utc
      = ev.kill + PresetGet(presets, ev.name, DefaultTuple).respawn_min * 60

KillSeen == ev.op = "kill" /\ ev.res # "ignored" /\ Len(ev.parts) >= 1

PrefixHits(ps, key) ==
  {i \in 1..Len(ps) : StartsWith(normalize_for_match(ps[i].name), key)}

UniquePrefix(ps, user_alias, text) ==
  LET key == normalize_for_match(text)
  IN  /\ text \notin PresetNames(ps)
      /\ key \notin DOMAIN user_alias
      /\ key \notin {normalize_for_match(ps[i].name) : i \in 1..Len(ps)}
      /\ Cardinality(PrefixHits(ps, key)) = 1

\* C13: a name that is no exact alias or canonical name and that exactly one
\* canonical name starts with resolves to that boss, wherever it stands in the
\* catalog and whatever other names contain the text.
C13_UniquePrefixWins ==
  (KillSeen /\ UniquePrefix(presets, AliasesOf(data, ev.g), ev.parts[1])) =>
    \A i \in PrefixHits(presets, normalize_for_match(ev.parts[1])) :
      ev.name = presets[i].name

\* C14: a name whose normalized form is a key of the guild's alias table
\* resolves to that alias's target, also when the same text is a preset alias
\* or a canonical name.
C14_UserAliasFirst ==
  (KillSeen /\ normalize_for_match(ev.parts[1]) \in DOMAIN AliasesOf(data, ev.g)) =>
    ev.name = AliasesOf(data, ev.g)[normalize_for_match(ev.parts[1])]

\* C15: a call of name resolution leaves the stored state (alias tables,
\* records, the set of guilds in the store) as it was, whatever it returns and
\* also for a guild never seen before: the store after the resolve call of an
\* alias command is the store before it, and an alias command whose official
\* name does not resolve changes nothing.
C15_ResolveLeavesStore ==
  [][(ev'.op = "alias" /\ Len(ev'.parts) >= 2) =>
       /\ resolve_store(presets, data, ev'.g, ev'.parts[2]) = data
       /\ ev'.res = "unknown" => data' = data]_vars

CountIn(e, kind, k, occurrence) ==
  IF <<kind, k[1], k[2], occurrence>> \in DOMAIN e
  THEN e[<<kind, k[1], k[2], occurrence>>] ELSE 0

\* C16: a message handled for guild S leaves the entry (records, aliases,
\* channels) and the markers of every other guild as they were and creates no
\* entry for another guild; in a scan the markers a guild gains are those of its
\* own records, and a record is notified exactly when it is in its window and
\* its own guild's bucket holds no live marker for it.
C16_GuildsAreIsolated ==
  [][/\ ev'.op \in {"kill", "rh", "reset", "alias", "unalias", "hereon", "hereoff", "bt"} =>
          \A g \in Guilds \ {ev'.g} :
            /\ g \in DOMAIN data' <=> g \in DOMAIN data
            /\ g \in DOMAIN data => data'[g] = data[g]
            /\ sent'[g] = sent[g]
     /\ ev'.op = "tick" =>
          \A g \in DOMAIN data :
            /\ \A key \in DOMAIN sent'[g] \ DOMAIN sent[g] :
                 \E nm \in DOMAIN data[g].bosses :
                   key \in {EventKey("pre", data[g].bosses[nm]),
                            EventKey("now", data[g].bosses[nm])}
            /\ \A nm \in DOMAIN data[g].bosses :
                 LET st == data[g].bosses[nm]
                     N  == st.next_spawn_utc
                 IN  /\ CountIn(emitted', "pre", <<g, nm>>, N) # CountIn(emitted, "pre", <<g, nm>>, N)
                          <=> /\ Scanned(st)
                              /\ InPreWindow(st, now)
                              /\ ~already_sent(sent[g], EventKey("pre", st), now)
                     /\ CountIn(emitted', "now", <<g, nm>>, N) # CountIn(emitted, "now", <<g, nm>>, N)
                          <=> /\ Scanned(st)
                              /\ InNowWindow(st, now)
                              /\ ~already_sent(sent[g], EventKey("now", st), now)]_vars

\* C16 witness: a message that wrote records of guild 2 while guild 1 held a
\* record and a marker
C16_Witness ==
  /\ ev.op \in {"kill", "rh", "reset"}
  /\ ev.res = "ok"
  /\ ev.g = 2
  /\ 2 \in DOMAIN data /\ DOMAIN data[2].bosses # {}
  /\ 1 \in DOMAIN data /\ DOMAIN data[1].bosses # {}
  /\ DOMAIN sent[1] # {}
  /\ DOMAIN sent[2] = {}

LastTick == ev.op = "tick"

C18_DigestOrderedByTimeThenName ==
  LastTick =>
    \A m \in ev.msgs :
      \A i, j \in DOMAIN m.lines :
        i < j =>
          \/ m.lines[i].next < m.lines[j].next
          \/ m.lines[i].next = m.lines[j].next /\ StrLess(m.lines[i].name, m.lines[j].name)

LastBt == ev.op = "bt"

\* C19: bt with horizon H lists exactly the records of the guild whose
\* occurrence lies in [now, now + H], bt without horizon exactly those with a
\* set occurrence; each once, in ascending order of occurrence.
C19_BtListsTheWindow ==
  LastBt =>
    LET B == data[ev.g].bosses
    IN  /\ {ev.items[i] : i \in DOMAIN ev.items}
             = {nm \in DOMAIN B :
                  /\ B[nm].next_spawn_utc # None
                  /\ ev.horizon # None =>
                       /\ B[nm].next_spawn_utc >= now
                       /\ B[nm].next_spawn_utc <= now + ev.horizon * 3600}
        /\ \A i, j \in DOMAIN ev.items :
             i < j => /\ ev.items[i] # ev.items[j]
                      /\ B[ev.items[i]].next_spawn_utc <= B[ev.items[j]].next_spawn_utc

\* C20: a record comes into existence only in a kill input or in the seeding
\* of a reset, and only under the name of a preset; no other command, rh
\* included, creates one.
C20_RecordsOnlyFromKillOrReset ==
  [][\A g \in DOMAIN data' :
       \A nm \in DOMAIN data'[g].bosses \ DOMAIN BossesOf(data, g) :
         /\ ev'.op \in {"kill", "reset"}
         /\ nm \in PresetNames(presets)]_vars

\* C24: write-through. After every completed operation the store file holds
\* exactly the in-memory store: the records, channels and aliases of every guild.
C24_FileEqualsStore == disk = data

\* a store that went through a kill, a miss-advance and an alias command
C24_Witness ==
  /\ disk = data
  /\ \E k \in Recs : Rec(k).skip > 0
  /\ \E g \in DOMAIN data : DOMAIN data[g].aliases # {}

\* the window of one kind of notification
InWindow(kind, st, n) == IF kind = "pre" THEN InPreWindow(st, n) ELSE InNowWindow(st, n)

\* a marker of the same kind, channel and boss as st, set for another occurrence
\* and not yet expired at n
OtherLive(kind, g, st, n) ==
  \E key \in DOMAIN sent[g] :
    /\ key[1] = kind /\ key[2] = st.channel_id /\ key[4] = st.name
    /\ key[3] # st.next_spawn_utc
    /\ sent[g][key] >= n

\* C22: markers are per occurrence value. Whenever a scan falls in the pre-warn
\* (occurrence) window of the occurrence a record holds, the pre-warn
\* (occurrence) notification for that very value has been emitted by the end of
\* the scan, whatever markers earlier values of the record left behind.
C22_NewOccurrenceIsNotified ==
  [][ev'.op = "tick" =>
       \A kind \in {"pre", "now"}, k \in Recs :
         Scanned(Rec(k)) /\ InWindow(kind, Rec(k), now)
           => CountIn(emitted', kind, k, Rec(k).next_spawn_utc) >= 1]_vars

\* a scan that notified the occurrence of a record while the marker of the
\* record's previous occurrence was still live
C22_Witness ==
  /\ ev.op = "tick"
  /\ \E k \in Recs :
       /\ Scanned(Rec(k))
       /\ InNowWindow(Rec(k), now)
       /\ <<"now", k[1], k[2], Rec(k).next_spawn_utc>> \in ev.labels
       /\ OtherLive("now", k[1], Rec(k), now)

\* C23: the order of events of one occurrence (one occurrence value of a record,
\* no kill or reset in between). Every notification a scan emits is for an
\* occurrence that was not miss-advanced before and is not miss-advanced by this
\* scan, and a pre-warn is emitted only when no earlier scan emitted the
\* occurrence notification of the same occurrence.
C23_PreThenOccurrenceThenMiss ==
  [][ev'.op = "tick" =>
       \A e \in ev'.labels :
         /\ <<e[2], e[3], e[4]>> \notin missed
         /\ <<e[2], e[3], e[4]>> \notin missed'
         /\ e[1] = "pre" => CountIn(emitted, "now", <<e[2], e[3]>>, e[4]) = 0]_vars

\* an occurrence that was pre-warned, notified and then miss-advanced
C23_Witness ==
  \E m \in missed :
    /\ Count("pre", <<m[1], m[2]>>, m[3]) = 1
    /\ Count("now", <<m[1], m[2]>>, m[3]) = 1

\* C21: no update is lost between handlers and a tick suspended in its sends.
\* In every segment of a tick, each guild scanned is scanned as the completed
\* handlers left it: every label is for the occurrence the record holds when
\* the guild's turn comes, every record scanned ends as that record or as its
\* miss-advance, and nothing else in the store changes.
C21_NoLostUpdate ==
  [][ev'.op = "scan" =>
       /\ DOMAIN data' = DOMAIN data
       /\ \A g \in DOMAIN data :
            /\ DOMAIN data'[g].bosses = DOMAIN data[g].bosses
            /\ data'[g].channels = data[g].channels
            /\ data'[g].aliases = data[g].aliases
            /\ \A nm \in DOMAIN data[g].bosses :
                 data'[g].bosses[nm] =
                   IF g \in ev'.guilds /\ Scanned(data[g].bosses[nm])
                   THEN Slide(data[g].bosses[nm], ev'.kill)
                   ELSE data[g].bosses[nm]
       /\ \A e \in ev'.labels :
            /\ e[3] \in DOMAIN data[e[2]].bosses
            /\ e[4] = data[e[2]].bosses[e[3]].next_spawn_utc]_vars

\* a tick resumed after a handler changed a record it had not yet read, which
\* miss-advanced that record from the value the handler wrote
C21_Witness ==
  /\ ev.op = "scan"
  /\ ev.stale \cap ev.slid # {}
====
